---------------------------- MODULE Spec2Model ----------------------------
(***************************************************************************)
(* typesafe-api: the method registry (mathService), the dispatcher         *)
(* (framework.ts: callApiMethodSafe, callApiMethod), the Koa server        *)
(* handler and the client's callApiMethod, as a state machine.             *)
(*                                                                         *)
(* Every call of an async function is a frame p with a program counter.    *)
(* A frame is cut at statement boundaries (lookup, validate, invoke) and   *)
(* at its one suspension point (the await of the implementation's          *)
(* promise). JavaScript runs the statements before the await without       *)
(* interruption; cutting them apart only adds interleavings.               *)
(***************************************************************************)
EXTENDS Integers, Sequences, FiniteSets, TLC

\* the number of calls (frames / requests) that may be in flight together
MaxDispatch == 2
\* the depth at which the engine's call stack is exhausted
StackLimit == 3
\* the largest finite number (Number.MAX_VALUE): finite numbers are the
\* integers of -MaxValue..MaxValue, a sum beyond them is an infinity
MaxValue == 10

Procs == 1..MaxDispatch

----------------------------------------------------------------------------
(* JavaScript values. A primitive is [t, n, s]: t the typeof-like tag, n the *)
(* value of a finite number, s the text of a string or the name of a        *)
(* non-finite number. A value is a primitive or an object of primitives.    *)

Num(k) == [t |-> "number", n |-> k, s |-> ""]
Infinity == [t |-> "number", n |-> 0, s |-> "Infinity"]
NegInfinity == [t |-> "number", n |-> 0, s |-> "-Infinity"]
NaN == [t |-> "number", n |-> 0, s |-> "NaN"]
Str(x) == [t |-> "string", n |-> 0, s |-> x]
Undefined == [t |-> "undefined", n |-> 0, s |-> ""]
Null == [t |-> "null", n |-> 0, s |-> ""]

NoProps == [k \in {} |-> Undefined]
Prim(v) == [kind |-> "primitive", prim |-> v, props |-> NoProps]
Obj(f) == [kind |-> "object", prim |-> Undefined, props |-> f]

\* the literal { k1: v1 } and { k1: v1, k2: v2 }
Obj1(k1, v1) == Obj([k \in {k1} |-> v1])
Obj2(k1, v1, k2, v2) == Obj([k \in {k1, k2} |-> IF k = k1 THEN v1 ELSE v2])

\* a + b and a - b of two JavaScript numbers
Neg(a) ==
  IF a.s = "Infinity" THEN NegInfinity
  ELSE IF a.s = "-Infinity" THEN Infinity
  ELSE IF a.s = "NaN" THEN NaN
  ELSE Num(0 - a.n)

Plus(a, b) ==
  IF a.s = "NaN" \/ b.s = "NaN" THEN NaN
  ELSE IF a.s = "" /\ b.s = ""
  THEN IF a.n + b.n > MaxValue THEN Infinity
       ELSE IF a.n + b.n < 0 - MaxValue THEN NegInfinity
       ELSE Num(a.n + b.n)
  ELSE IF a.s = "" THEN b
  ELSE IF b.s = "" THEN a
  ELSE IF a.s = b.s THEN a
  ELSE NaN

Minus(a, b) == Plus(a, Neg(b))

----------------------------------------------------------------------------
(* Errors and promises.  The message of an Error is text ++ arg ++ the      *)
(* rendering of issues; the three parts are kept apart.                     *)

NoIssues == {}
Err(name, text, arg, issues) ==
  [name |-> name, text |-> text, arg |-> arg, issues |-> issues]
NoError == Err("", "", "", NoIssues)

Pending == [state |-> "pending", value |-> Prim(Undefined), reason |-> NoError]
Fulfilled(v) == [state |-> "fulfilled", value |-> v, reason |-> NoError]
Rejected(e) == [state |-> "rejected", value |-> Prim(Undefined), reason |-> e]

----------------------------------------------------------------------------
(* zod.  A schema z.object({k: z.number(), ...}) is the set of its keys.    *)

NoSchema == [defined |-> FALSE, shape |-> {}]
ZObject(keys) == [defined |-> TRUE, shape |-> keys]

\* zod's getParsedType of a primitive
ParsedType(v) == IF v.t = "number" /\ v.s = "NaN" THEN "nan" ELSE v.t

\* the issues z.object(shape).safeParse(x) reports
Issues(schema, x) ==
  IF x.kind # "object"
  THEN {[path |-> "", expected |-> "object", received |-> ParsedType(x.prim)]}
  ELSE {[path |-> k, expected |-> "number",
         received |-> IF k \in DOMAIN x.props THEN ParsedType(x.props[k])
                      ELSE "undefined"] :
          k \in {j \in schema.shape :
                   \/ j \notin DOMAIN x.props
                   \/ ParsedType(x.props[j]) # "number"}}

\* schema.safeParse(x): on success the data keeps the keys of the shape only
safeParse(schema, x) ==
  IF Issues(schema, x) = NoIssues
  THEN [success |-> TRUE, data |-> Obj([k \in schema.shape |-> x.props[k]]),
        issues |-> NoIssues]
  ELSE [success |-> FALSE, data |-> Prim(Undefined),
        issues |-> Issues(schema, x)]


----------------------------------------------------------------------------
(* Method specs and registries.  A method spec is { input, method }; the    *)
(* method is named by the implementation it runs.                           *)

ApiMethodSpec(schema, impl) == [input |-> schema, method |-> impl]

add == ApiMethodSpec(ZObject({"augend", "addend"}), "add")
subtract == ApiMethodSpec(ZObject({"minuend", "subtrahend"}), "subtract")

mathService == [k \in {"add", "subtract"} |-> IF k = "add" THEN add ELSE subtract]

\* another ApiService: one method whose implementation is any async function
job == ApiMethodSpec(ZObject({"a"}), "any")
jobService == [k \in {"job"} |-> job]

ApiService == {mathService, jobService}

\* what an implementation written against the interface may do
Boom == Err("Error", "boom", "", NoIssues)
AnyOutcomes == {Fulfilled(Obj1("done", Num(1))), Rejected(Boom)}

\* a subtract that takes the minuend from the subtrahend
RunMethodSwapped(impl, data) ==
  IF impl = "add"
  THEN {Fulfilled(Obj1("sum", Plus(data.props["augend"], data.props["addend"])))}
  ELSE IF impl = "subtract"
  THEN {Fulfilled(Obj1("difference",
                       Minus(data.props["subtrahend"], data.props["minuend"])))}
  ELSE AnyOutcomes

\* spec.method(data): the promises the implementation can return
RunMethod(impl, data) ==
  IF impl = "add"
  THEN {Fulfilled(Obj1("sum", Plus(data.props["augend"], data.props["addend"])))}
  ELSE IF impl = "subtract"
  THEN {Fulfilled(Obj1("difference",
                       Minus(data.props["minuend"], data.props["subtrahend"])))}
  ELSE AnyOutcomes

\* property names every object literal inherits from Object.prototype
ObjectPrototypeKeys == {"toString", "constructor", "__proto__"}

\* key in obj
HasProperty(obj, key) == key \in DOMAIN obj \/ key \in ObjectPrototypeKeys

\* obj[key]: an inherited member has neither .input nor .method
Inherited == [input |-> NoSchema, method |-> "none"]
GetProperty(obj, key) == IF key \in DOMAIN obj THEN obj[key] ELSE Inherited

UnrecognizedMethod(m) == Err("Error", "Unrecognized method name ", m, NoIssues)
ValidationFailed(issues) == Err("Error", "Validation failed: ", "", issues)
\* Cannot read properties of undefined (reading 'safeParse')
TypeError == Err("TypeError", "Cannot read properties of undefined", "safeParse",
                 NoIssues)

\* callApiMethodSafe as a function: what one call returns when it runs alone
\* and its implementation, if it is reached, returns implPromise
SafeResult(svc, m, x, implPromise) ==
  IF ~HasProperty(svc, m) THEN Rejected(UnrecognizedMethod(m))
  ELSE IF ~GetProperty(svc, m).input.defined THEN Rejected(TypeError)
  ELSE IF ~safeParse(GetProperty(svc, m).input, x).success
  THEN Rejected(ValidationFailed(safeParse(GetProperty(svc, m).input, x).issues))
  ELSE implPromise

\* the failure kinds of a rejected dispatch
Kind(e) ==
  IF e.name = "Error" /\ e.text = "Unrecognized method name " THEN "UnknownMethod"
  ELSE IF e.name = "Error" /\ e.text = "Validation failed: " THEN "ValidationFailed"
  ELSE "Other"

----------------------------------------------------------------------------
(* Inputs of the calls.                                                     *)

MethodNames == {"add", "subtract", "multiply", "job"} \cup ObjectPrototypeKeys

Inputs ==
  { Obj2("augend", Num(2), "addend", Num(2)),
    Obj2("minuend", Num(10), "subtrahend", Num(3)),
    Obj2("a", Num(1), "b", Num(2)),
    Obj2("augend", Str("two"), "addend", Num(2)),
    Obj1("augend", Num(2)),
    Prim(Undefined) }

----------------------------------------------------------------------------
VARIABLES
  service,          \* the registry the calls are made on
  pc,               \* pc[p]: where frame p stands
  entry,            \* entry[p]: the function frame p was entered through
  method,           \* method[p]: the method name argument
  input,            \* input[p]: the input argument
  spec,             \* spec[p]: const spec = service[method]
  inputValidation,  \* inputValidation[p]: the result of spec.input.safeParse
  promise,          \* promise[p]: what spec.method(...) returned
  result,           \* result[p]: the promise callApiMethodSafe returned
  steps,            \* steps[p]: the steps frame p has taken, in order
  calls,            \* calls[p]: the arguments spec.method was called with
  depth,            \* depth[p]: nested frames of callApiMethod
  request,          \* request[p]: ctx.request.body
  response,         \* response[p]: the HTTP response
  clientCall,       \* clientCall[p]: the arguments of the client's callApiMethod
  clientResult      \* clientResult[p]: the promise the client's call returned

vars == <<service, pc, entry, method, input, spec, inputValidation, promise,
          result, steps, calls, depth, request, response, clientCall,
          clientResult>>

serverVars == <<request, response>>
clientVars == <<clientCall, clientResult>>

NoParse == [success |-> FALSE, data |-> Prim(Undefined), issues |-> NoIssues]
NoResponse == [status |-> 0, body |-> Prim(Undefined)]
NoCall == [method |-> "", input |-> Prim(Undefined)]

InitFrames ==
  /\ pc = [p \in Procs |-> "idle"]
  /\ entry = [p \in Procs |-> ""]
  /\ method = [p \in Procs |-> ""]
  /\ input = [p \in Procs |-> Prim(Undefined)]
  /\ spec = [p \in Procs |-> Inherited]
  /\ inputValidation = [p \in Procs |-> NoParse]
  /\ promise = [p \in Procs |-> Pending]
  /\ result = [p \in Procs |-> Pending]
  /\ steps = [p \in Procs |-> <<>>]
  /\ calls = [p \in Procs |-> <<>>]
  /\ depth = [p \in Procs |-> 0]
  /\ request = [p \in Procs |-> Prim(Undefined)]
  /\ response = [p \in Procs |-> NoResponse]
  /\ clientCall = [p \in Procs |-> NoCall]
  /\ clientResult = [p \in Procs |-> Pending]

Init ==
  /\ service \in ApiService
  /\ InitFrames

----------------------------------------------------------------------------
(* callApiMethodSafe(service, method, input)                                *)

\* a dispatcher that registers an unknown name before rejecting it
callApiMethodSafeRegistering(p, m, x) ==
  /\ method' = [method EXCEPT ![p] = m]
  /\ input' = [input EXCEPT ![p] = x]
  /\ steps' = [steps EXCEPT ![p] = Append(@, "lookup")]
  /\ IF HasProperty(service, m)
     THEN /\ pc' = [pc EXCEPT ![p] = "validate"]
          /\ UNCHANGED <<result, service>>
     ELSE /\ pc' = [pc EXCEPT ![p] = "done"]
          /\ result' = [result EXCEPT ![p] = Rejected(UnrecognizedMethod(m))]
          /\ service' = [k \in DOMAIN service \cup {m} |->
                           IF k \in DOMAIN service THEN service[k] ELSE Inherited]
  /\ UNCHANGED <<spec, inputValidation, promise, calls>>

\* callApiMethodSafe entered with (m, x), up to the end of its first statement:
\* if (!(method in service)) throw new Error(`Unrecognized method name ...`)
callApiMethodSafe(p, m, x) ==
  /\ method' = [method EXCEPT ![p] = m]
  /\ input' = [input EXCEPT ![p] = x]
  /\ steps' = [steps EXCEPT ![p] = Append(@, "lookup")]
  /\ IF HasProperty(service, m)
     THEN /\ pc' = [pc EXCEPT ![p] = "validate"]
          /\ UNCHANGED result
     ELSE /\ pc' = [pc EXCEPT ![p] = "done"]
          /\ result' = [result EXCEPT ![p] = Rejected(UnrecognizedMethod(m))]
  /\ UNCHANGED <<service, spec, inputValidation, promise, calls>>

\* a caller calls callApiMethodSafe with a name and an input of its choice
Call(p) ==
  /\ pc[p] = "idle"
  /\ entry' = [entry EXCEPT ![p] = "callApiMethodSafe"]
  /\ \E m \in MethodNames, x \in Inputs : callApiMethodSafe(p, m, x)
  /\ UNCHANGED <<depth, serverVars, clientVars>>

\* a dispatcher that goes on to the call whatever safeParse says
ValidateUnchecked(p) ==
  /\ pc[p] = "validate"
  /\ LET s == GetProperty(service, method[p])
         v == safeParse(s.input, input[p])
     IN  /\ spec' = [spec EXCEPT ![p] = s]
         /\ IF ~s.input.defined
            THEN /\ pc' = [pc EXCEPT ![p] = "done"]
                 /\ result' = [result EXCEPT ![p] = Rejected(TypeError)]
                 /\ UNCHANGED <<inputValidation, steps>>
            ELSE /\ inputValidation' = [inputValidation EXCEPT ![p] = v]
                 /\ steps' = [steps EXCEPT ![p] = Append(@, "validate")]
                 /\ pc' = [pc EXCEPT ![p] = "invoke"]
                 /\ UNCHANGED result
  /\ UNCHANGED <<service, entry, method, input, promise, calls, depth, serverVars, clientVars>>

\* const spec = service[method];
\* const inputValidation = spec.input.safeParse(input);
\* if (!inputValidation.success) throw new Error('Validation failed: ' + ...)
Validate(p) ==
  /\ pc[p] = "validate"
  /\ LET s == GetProperty(service, method[p])
         v == safeParse(s.input, input[p])
     IN  /\ spec' = [spec EXCEPT ![p] = s]
         /\ IF ~s.input.defined
            THEN /\ pc' = [pc EXCEPT ![p] = "done"]
                 /\ result' = [result EXCEPT ![p] = Rejected(TypeError)]
                 /\ UNCHANGED <<inputValidation, steps>>
            ELSE /\ inputValidation' = [inputValidation EXCEPT ![p] = v]
                 /\ steps' = [steps EXCEPT ![p] = Append(@, "validate")]
                 /\ IF v.success
                    THEN /\ pc' = [pc EXCEPT ![p] = "invoke"]
                         /\ UNCHANGED result
                    ELSE /\ pc' = [pc EXCEPT ![p] = "done"]
                         /\ result' = [result EXCEPT ![p] =
                                         Rejected(ValidationFailed(v.issues))]
  /\ UNCHANGED <<service, entry, method, input, promise, calls, depth, serverVars, clientVars>>

\* a dispatcher that hands the raw input to the implementation
InvokeRaw(p) ==
  /\ pc[p] = "invoke"
  /\ \E r \in RunMethod(spec[p].method, input[p]) :
       promise' = [promise EXCEPT ![p] = r]
  /\ calls' = [calls EXCEPT ![p] = Append(@, input[p])]
  /\ steps' = [steps EXCEPT ![p] = Append(@, "invoke")]
  /\ pc' = [pc EXCEPT ![p] = "await"]
  /\ UNCHANGED <<service, entry, method, input, spec, inputValidation, result,
                 depth, serverVars, clientVars>>

\* a dispatcher that answers from the promise of an earlier call of the same
\* method with the same input, when there is one
InvokeMemo(p) ==
  /\ pc[p] = "invoke"
  /\ LET earlier == {q \in Procs \ {p} : /\ pc[q] \in {"await", "done"}
                                         /\ promise[q].state # "pending"
                                         /\ method[q] = method[p]
                                         /\ input[q] = input[p]}
     IN  IF earlier # {}
         THEN /\ \E q \in earlier : promise' = [promise EXCEPT ![p] = promise[q]]
              /\ UNCHANGED calls
         ELSE /\ \E r \in RunMethod(spec[p].method, inputValidation[p].data) :
                   promise' = [promise EXCEPT ![p] = r]
              /\ calls' = [calls EXCEPT ![p] = Append(@, inputValidation[p].data)]
  /\ steps' = [steps EXCEPT ![p] = Append(@, "invoke")]
  /\ pc' = [pc EXCEPT ![p] = "await"]
  /\ UNCHANGED <<service, entry, method, input, spec, inputValidation, result,
                 depth, serverVars, clientVars>>

\* spec.method(inputValidation.data): the call, up to the await
Invoke(p) ==
  /\ pc[p] = "invoke"
  /\ \E r \in RunMethod(spec[p].method, inputValidation[p].data) :
       promise' = [promise EXCEPT ![p] = r]
  /\ calls' = [calls EXCEPT ![p] = Append(@, inputValidation[p].data)]
  /\ steps' = [steps EXCEPT ![p] = Append(@, "invoke")]
  /\ pc' = [pc EXCEPT ![p] = "await"]
  /\ UNCHANGED <<service, entry, method, input, spec, inputValidation, result,
                 depth, serverVars, clientVars>>

\* a dispatcher that catches the implementation's error and throws its own
ResumeReshaped(p) ==
  /\ pc[p] = "await"
  /\ result' = [result EXCEPT ![p] =
                  IF promise[p].state = "rejected"
                  THEN Rejected(Err("Error", "Method failed: ", method[p], NoIssues))
                  ELSE promise[p]]
  /\ pc' = [pc EXCEPT ![p] = "done"]
  /\ UNCHANGED <<service, entry, method, input, spec, inputValidation, promise,
                 steps, calls, depth, serverVars, clientVars>>

\* a dispatcher that keeps the awaited promise in one place shared by all calls
ResumeShared(p) ==
  /\ pc[p] = "await"
  /\ \E q \in {r \in Procs : promise[r].state # "pending"} :
       result' = [result EXCEPT ![p] = promise[q]]
  /\ pc' = [pc EXCEPT ![p] = "done"]
  /\ UNCHANGED <<service, entry, method, input, spec, inputValidation, promise,
                 steps, calls, depth, serverVars, clientVars>>

\* return (await <promise>) as unknown: resumed when the promise has settled
Resume(p) ==
  /\ pc[p] = "await"
  /\ result' = [result EXCEPT ![p] = promise[p]]
  /\ pc' = [pc EXCEPT ![p] = "done"]
  /\ UNCHANGED <<service, entry, method, input, spec, inputValidation, promise,
                 steps, calls, depth, serverVars, clientVars>>

Next ==
  \E p \in Procs :
    \/ Call(p)
    \/ Validate(p)
    \/ Invoke(p)
    \/ Resume(p)

Spec == Init /\ [][Next]_vars

----------------------------------------------------------------------------
(* callApiMethod(service, method, input), the typed convenience function.   *)
(* Its body is `return callApiMethod(service, method, input)`: every frame  *)
(* calls the function again until the stack is exhausted.                   *)

\* RangeError: Maximum call stack size exceeded
RangeError == Err("RangeError", "Maximum call stack size exceeded", "", NoIssues)

\* a call site that type-checks: method is a key of the service, input is of
\* the method's input type
CallTyped(p) ==
  /\ pc[p] = "idle"
  /\ \E m \in DOMAIN service :
       \E x \in {i \in Inputs : safeParse(service[m].input, i).success} :
         /\ method' = [method EXCEPT ![p] = m]
         /\ input' = [input EXCEPT ![p] = x]
  /\ entry' = [entry EXCEPT ![p] = "callApiMethod"]
  /\ depth' = [depth EXCEPT ![p] = 1]
  /\ pc' = [pc EXCEPT ![p] = "callApiMethod"]
  /\ UNCHANGED <<service, spec, inputValidation, promise, result, steps, calls,
                 serverVars, clientVars>>

\* return callApiMethod(service, method, input): one more frame, same arguments
Recurse(p) ==
  /\ pc[p] = "callApiMethod"
  /\ depth[p] < StackLimit
  /\ depth' = [depth EXCEPT ![p] = @ + 1]
  /\ UNCHANGED <<service, pc, entry, method, input, spec, inputValidation,
                 promise, result, steps, calls, serverVars, clientVars>>

\* the next call does not fit the stack: the innermost frame's promise is
\* rejected with the RangeError
Overflow(p) ==
  /\ pc[p] = "callApiMethod"
  /\ depth[p] = StackLimit
  /\ result' = [result EXCEPT ![p] = Rejected(RangeError)]
  /\ pc' = [pc EXCEPT ![p] = "unwind"]
  /\ UNCHANGED <<service, entry, method, input, spec, inputValidation, promise,
                 steps, calls, depth, serverVars, clientVars>>

\* each frame's promise takes the state of the promise it returned
Unwind(p) ==
  /\ pc[p] = "unwind"
  /\ depth' = [depth EXCEPT ![p] = @ - 1]
  /\ pc' = [pc EXCEPT ![p] = IF depth[p] = 1 THEN "done" ELSE "unwind"]
  /\ UNCHANGED <<service, entry, method, input, spec, inputValidation, promise,
                 result, steps, calls, serverVars, clientVars>>

NextTyped ==
  \E p \in Procs :
    \/ CallTyped(p)
    \/ Recurse(p)
    \/ Overflow(p)
    \/ Unwind(p)

SpecTyped == Init /\ [][NextTyped]_vars

----------------------------------------------------------------------------
(* The server: app.use(async (ctx) => { ... }) on mathService.              *)

\* JSON.stringify of a number, a string or null: a non-finite number is null
JsonPrim(v) == IF v.t = "number" /\ v.s # "" THEN Null ELSE v

\* the value a reader of JSON.stringify(v) gets: keys holding undefined are
\* left out
JsonStringify(v) ==
  IF v.kind = "object"
  THEN Obj([k \in {j \in DOMAIN v.props : v.props[j].t # "undefined"} |->
              JsonPrim(v.props[k])])
  ELSE Prim(JsonPrim(v.prim))

\* ctx.request.body: { method, input }, either of which may be missing
Body(m, x) == [method |-> m, input |-> x]

Bodies ==
  { Body(m, x) :
      m \in {Str("add"), Str("subtract"), Str("multiply"), Str("toString"),
             Undefined},
      x \in { Obj2("augend", Num(2), "addend", Num(2)),
              Obj2("minuend", Num(10), "subtrahend", Num(3)),
              Obj2("augend", Str("two"), "addend", Num(2)),
              Obj2("augend", Infinity, "addend", Num(2)),
              Prim(Undefined) } }

\* bodySpec = z.object({ method: z.string(), input: z.any() })
bodySpec(body) == body.method.t = "string"

InternalServerError == Prim(Str("Internal Server Error"))

\* const body = bodySpec.parse(ctx.request.body);
\* ... callApiMethodSafe(mathService, body.method, body.input)
\* a body that does not parse throws out of the handler: Koa answers 500
handler(p, body) ==
  /\ entry' = [entry EXCEPT ![p] = "handler"]
  /\ request' = [request EXCEPT ![p] = body]
  /\ IF bodySpec(body)
     THEN /\ callApiMethodSafe(p, body.method.s, body.input)
          /\ UNCHANGED response
     ELSE /\ response' = [response EXCEPT ![p] =
                            [status |-> 500, body |-> InternalServerError]]
          /\ pc' = [pc EXCEPT ![p] = "responded"]
          /\ UNCHANGED <<service, method, input, spec, inputValidation,
                         promise, result, steps, calls>>
  /\ UNCHANGED depth

\* a request with any body reaches the server
Handler(p) ==
  /\ pc[p] = "idle"
  /\ \E body \in Bodies : handler(p, body)
  /\ UNCHANGED clientVars

\* a handler that answers a failed dispatch with its message in the body
RespondCaught(p) ==
  /\ pc[p] = "done"
  /\ entry[p] = "handler"
  /\ response' = [response EXCEPT ![p] =
       IF result[p].state = "fulfilled"
       THEN [status |-> 200, body |-> JsonStringify(result[p].value)]
       ELSE [status |-> 200, body |-> Prim(Str(result[p].reason.text))]]
  /\ pc' = [pc EXCEPT ![p] = "responded"]
  /\ UNCHANGED <<service, entry, method, input, spec, inputValidation, promise,
                 result, steps, calls, depth, request, clientVars>>

\* ctx.body = await callApiMethodSafe(...): Koa answers 200 with the value as
\* JSON (204 when there is no value); a rejection throws out of the handler
\* and Koa answers 500
Respond(p) ==
  /\ pc[p] = "done"
  /\ entry[p] = "handler"
  /\ response' = [response EXCEPT ![p] =
       IF result[p].state = "fulfilled"
       THEN IF result[p].value.kind = "primitive"
               /\ result[p].value.prim.t \in {"undefined", "null"}
            THEN [status |-> 204, body |-> Prim(Undefined)]
            ELSE [status |-> 200, body |-> JsonStringify(result[p].value)]
       ELSE [status |-> 500, body |-> InternalServerError]]
  /\ pc' = [pc EXCEPT ![p] = "responded"]
  /\ UNCHANGED <<service, entry, method, input, spec, inputValidation, promise,
                 result, steps, calls, depth, request, clientVars>>

InitServer ==
  /\ service = mathService
  /\ InitFrames

NextServer ==
  \E p \in Procs :
    \/ Handler(p)
    \/ Validate(p)
    \/ Invoke(p)
    \/ Resume(p)
    \/ Respond(p)

SpecServer == InitServer /\ [][NextServer]_vars

----------------------------------------------------------------------------
(* The client: callApiMethod(method, input) of the client package, talking  *)
(* to the server above.  Frame p is one client call and the request it      *)
(* makes.                                                                   *)

\* MathServiceMethod = keyof MathService
MathServiceMethod == DOMAIN mathService

\* numbers a call site passes
ClientNumbers == {Num(2), Num(MaxValue), NaN}

\* inferInputType<MathService[Method]>: an object of numbers under the keys of
\* the method's input schema
inferInputType(m) ==
  {Obj(f) : f \in [mathService[m].input.shape -> ClientNumbers]}

\* callApiMethod(method, input) up to the await of fetch: the request carries
\* JSON.stringify({ method, input })
Fetch(p) ==
  /\ pc[p] = "idle"
  /\ \E m \in MathServiceMethod :
       \E x \in inferInputType(m) :
         /\ clientCall' = [clientCall EXCEPT ![p] = [method |-> m, input |-> x]]
         /\ request' = [request EXCEPT ![p] = Body(Str(m), JsonStringify(x))]
  /\ entry' = [entry EXCEPT ![p] = "client"]
  /\ pc' = [pc EXCEPT ![p] = "fetch"]
  /\ UNCHANGED <<service, method, input, spec, inputValidation, promise, result,
                 steps, calls, depth, response, clientResult>>

\* the request reaches the server's handler
Receive(p) ==
  /\ pc[p] = "fetch"
  /\ handler(p, request[p])
  /\ UNCHANGED clientVars

\* a client that returns the body whatever the status
ReturnUnchecked(p) ==
  /\ pc[p] = "responded"
  /\ clientResult' = [clientResult EXCEPT ![p] = Fulfilled(response[p].body)]
  /\ pc' = [pc EXCEPT ![p] = "returned"]
  /\ UNCHANGED <<service, entry, method, input, spec, inputValidation, promise,
                 result, steps, calls, depth, serverVars, clientCall>>

\* if (response.status !== 200) throw new Error(`Bad response from API: ...`)
\* return await response.json()
\* (response.body holds the value the JSON text of the body denotes)
Return(p) ==
  /\ pc[p] = "responded"
  /\ clientResult' = [clientResult EXCEPT ![p] =
       IF response[p].status # 200
       THEN Rejected(Err("Error", "Bad response from API: ",
                         ToString(response[p].status), NoIssues))
       ELSE Fulfilled(response[p].body)]
  /\ pc' = [pc EXCEPT ![p] = "returned"]
  /\ UNCHANGED <<service, entry, method, input, spec, inputValidation, promise,
                 result, steps, calls, depth, serverVars, clientCall>>

NextClient ==
  \E p \in Procs :
    \/ Fetch(p)
    \/ Receive(p)
    \/ Validate(p)
    \/ Invoke(p)
    \/ Resume(p)
    \/ Respond(p)
    \/ Return(p)

SpecClient == InitServer /\ [][NextClient]_vars

----------------------------------------------------------------------------
(* The math registry on every pair of numbers: one dispatch of add or       *)
(* subtract through callApiMethodSafe.                                      *)

Numbers == {Num(k) : k \in (0 - MaxValue)..MaxValue} \cup {Infinity, NegInfinity, NaN}

\* { augend: a, addend: b } and { minuend: a, subtrahend: b }
MathInput(m, a, b) ==
  IF m = "add" THEN Obj2("augend", a, "addend", b)
  ELSE Obj2("minuend", a, "subtrahend", b)

\* callApiMethodSafe(mathService, m, MathInput(m, a, b))
Dispatch(p) ==
  /\ pc[p] = "idle"
  /\ entry' = [entry EXCEPT ![p] = "callApiMethodSafe"]
  /\ \E m \in MathServiceMethod, a \in Numbers, b \in Numbers :
       callApiMethodSafe(p, m, MathInput(m, a, b))
  /\ UNCHANGED <<depth, serverVars, clientVars>>

NextMath ==
  \E p \in {1} :
    \/ Dispatch(p)
    \/ Validate(p)
    \/ Invoke(p)
    \/ Resume(p)

SpecMath == InitServer /\ [][NextMath]_vars

----------------------------------------------------------------------------
(* Properties of the dispatcher, checked under Spec.                        *)

Started(p) == pc[p] # "idle"
Done(p) == pc[p] = "done"
Registered(p) == method[p] \in DOMAIN service
InputParse(p) == safeParse(service[method[p]].input, input[p])
IsPrefix(s, t) == Len(s) <= Len(t) /\ \A i \in 1..Len(s) : s[i] = t[i]
InSeq(x, s) == \E i \in 1..Len(s) : s[i] = x

\* C1: a call with a method name that is not a key of the registry ends
\* rejected with the Error "Unrecognized method name <name>".
C1_UnknownMethod ==
  \A p \in Procs :
    (Done(p) /\ ~Registered(p)) =>
      result[p] = Rejected(UnrecognizedMethod(method[p]))

\* C2: a call of a registered method with an input its validator rejects ends
\* rejected with "Validation failed: <the validator's issues>", and the
\* implementation is not called at any point of the call.
C2_ValidationFailed ==
  \A p \in Procs :
    (Started(p) /\ Registered(p) /\ ~InputParse(p).success) =>
      /\ calls[p] = <<>>
      /\ pc[p] \notin {"invoke", "await"}
      /\ promise[p] = Pending
      /\ Done(p) => result[p] = Rejected(ValidationFailed(InputParse(p).issues))

C2_Witness ==
  \E p \in Procs :
    /\ Done(p) /\ Registered(p) /\ ~InputParse(p).success
    /\ InSeq("validate", steps[p])
    /\ Kind(result[p].reason) = "ValidationFailed"

\* C3: a call of a registered method with an input its validator accepts as y
\* calls the implementation once, with y, and when the implementation's
\* promise is fulfilled with v the call is fulfilled with v.
C3_Success ==
  \A p \in Procs :
    (Started(p) /\ Registered(p) /\ InputParse(p).success) =>
      /\ Len(calls[p]) <= 1
      /\ pc[p] \in {"await", "done"} => calls[p] = <<InputParse(p).data>>
      /\ (Done(p) /\ promise[p].state = "fulfilled") =>
           result[p] = Fulfilled(promise[p].value)

\* the validated value differs from the raw input (a key was stripped)
C3_Witness ==
  \E p \in Procs :
    /\ Done(p) /\ Registered(p) /\ InputParse(p).success
    /\ InputParse(p).data # input[p]
    /\ calls[p] = <<InputParse(p).data>>
    /\ result[p].state = "fulfilled"

\* C4: when the implementation's promise is rejected with e, the call is
\* rejected with the same e, which is neither the unknown-method nor the
\* validation error, and the call is not fulfilled.
C4_ImplementationError ==
  \A p \in Procs :
    (Done(p) /\ promise[p].state = "rejected") =>
      /\ result[p] = Rejected(promise[p].reason)
      /\ result[p].state # "fulfilled"
      /\ Kind(result[p].reason) \notin {"UnknownMethod", "ValidationFailed"}

C4_Witness ==
  \E p \in Procs :
    /\ Done(p) /\ promise[p].state = "rejected"
    /\ calls[p] # <<>>
    /\ result[p].reason = Boom

\* C6: the steps of one call are a prefix of lookup, validate, invoke; the
\* implementation is called only after a successful validation; for a name
\* that is not a key of the registry the validator is not run and the call
\* ends with the unknown-method error, whatever the input.
C6_Order ==
  \A p \in Procs :
    /\ IsPrefix(steps[p], <<"lookup", "validate", "invoke">>)
    /\ InSeq("invoke", steps[p]) => inputValidation[p].success
    /\ (Started(p) /\ ~Registered(p)) =>
         /\ ~InSeq("validate", steps[p])
         /\ Done(p) => Kind(result[p].reason) = "UnknownMethod"

\* C7: two finished calls of the same registered method with the same valid
\* input have each called the implementation themselves, once, and each is
\* settled with the promise its own call of the implementation returned.
C7_NoMemo ==
  \A p, q \in Procs :
    ( /\ p # q /\ Done(p) /\ Done(q)
      /\ method[p] = method[q] /\ input[p] = input[q]
      /\ Registered(p) /\ InputParse(p).success ) =>
      /\ Len(calls[p]) = 1 /\ Len(calls[q]) = 1
      /\ Len(steps[p]) = 3 /\ Len(steps[q]) = 3
      /\ result[p] = promise[p] /\ result[q] = promise[q]

C7_Witness ==
  \E p, q \in Procs :
    /\ p # q /\ Done(p) /\ Done(q)
    /\ method[p] = method[q] /\ input[p] = input[q]
    /\ Registered(p) /\ InputParse(p).success
    /\ result[p].state = "fulfilled" /\ result[q].state = "fulfilled"
    /\ calls[p] # <<>> /\ calls[q] # <<>>

\* C8: whatever else is in flight, a finished call is settled with what the
\* same call gives when run alone: a function of its own method name, its own
\* input and the promise its own call of the implementation returned, which is
\* one the implementation can return for its validated input.
C8_Independent ==
  \A p \in Procs :
    /\ Done(p) => result[p] = SafeResult(service, method[p], input[p], promise[p])
    /\ calls[p] # <<>> =>
         promise[p] \in RunMethod(service[method[p]].method, InputParse(p).data)

\* one call has finished while another, with other arguments, is suspended
C8_Witness ==
  \E p, q \in Procs :
    /\ p # q /\ Done(p) /\ pc[q] = "await"
    /\ result[p].state = "fulfilled"
    /\ promise[q] # promise[p]
    /\ <<method[p], input[p]>> # <<method[q], input[q]>>

\* C9: no step of any call changes the registry.
C9_RegistryReadOnly == [][service' = service]_vars

\* every frame has finished, one fulfilled and one rejected for an unknown name
C9_Witness ==
  /\ \A p \in Procs : Done(p)
  /\ \E p \in Procs : result[p].state = "fulfilled"
  /\ \E p \in Procs : Kind(result[p].reason) = "UnknownMethod"
  /\ DOMAIN service = {"add", "subtract"}

----------------------------------------------------------------------------
(* Properties of the typed convenience function, checked under SpecTyped.   *)

\* C5: a finished call of callApiMethod on a registered method with a valid
\* input has called the method's implementation and is settled with what
\* callApiMethodSafe gives for the same arguments.
C5_TypedCall ==
  \A p \in Procs :
    (Done(p) /\ entry[p] = "callApiMethod") =>
      /\ calls[p] = <<InputParse(p).data>>
      /\ \E r \in RunMethod(service[method[p]].method, InputParse(p).data) :
           result[p] = SafeResult(service, method[p], input[p], r)

----------------------------------------------------------------------------
(* Properties of the server, checked under SpecServer.                      *)

Responded(p) == pc[p] = "responded"
AllFinite(v) ==
  IF v.kind = "object"
  THEN \A k \in DOMAIN v.props : v.props[k].t = "number" => v.props[k].s = ""
  ELSE v.prim.t = "number" => v.prim.s = ""

\* C10: an answered request whose dispatch was fulfilled with v has status 200
\* and as body the JSON serialisation of v, nothing around it (v itself when
\* its numbers are finite); an answered request whose body did not parse or
\* whose dispatch was rejected has a status of 400 or more.
C10_Response ==
  \A p \in Procs :
    Responded(p) =>
      IF result[p].state = "fulfilled"
      THEN /\ response[p].status = 200
           /\ response[p].body = JsonStringify(result[p].value)
           /\ AllFinite(result[p].value) => response[p].body = result[p].value
      ELSE response[p].status >= 400

\* one request answered with its method's output, another refused for its input
C10_Witness ==
  \E p, q \in Procs :
    /\ Responded(p) /\ result[p].state = "fulfilled"
    /\ response[p].status = 200 /\ response[p].body = result[p].value
    /\ Responded(q) /\ Kind(result[q].reason) = "ValidationFailed"
    /\ response[q].status = 500

----------------------------------------------------------------------------
(* Properties of the client, checked under SpecClient.                      *)

Returned(p) == pc[p] = "returned"

\* C11 as stated: the request carries the call's method and input; a status
\* other than 200 rejects the call with the error naming the status; a status
\* of 200 fulfils it with the body; and a fulfilled call has the value of a
\* fulfilled server-side dispatch.
C11_ClientCall ==
  \A p \in Procs :
    Returned(p) =>
      /\ request[p].method = Str(clientCall[p].method)
      /\ response[p].status # 200 =>
           clientResult[p] = Rejected(Err("Error", "Bad response from API: ",
                                          ToString(response[p].status), NoIssues))
      /\ response[p].status = 200 => clientResult[p] = Fulfilled(response[p].body)
      /\ clientResult[p].state = "fulfilled" =>
           /\ result[p].state = "fulfilled"
           /\ clientResult[p].value = result[p].value

\* C11 amended: as C11_ClientCall, with the input sent as its JSON
\* serialisation and a fulfilled call holding the JSON serialisation of the
\* dispatch's output, which is the output itself when its numbers are finite.
C11_ClientRoundTrip ==
  \A p \in Procs :
    Returned(p) =>
      /\ request[p] = Body(Str(clientCall[p].method),
                           JsonStringify(clientCall[p].input))
      /\ response[p].status # 200 =>
           /\ clientResult[p] = Rejected(Err("Error", "Bad response from API: ",
                                             ToString(response[p].status), NoIssues))
           /\ clientResult[p].value = Prim(Undefined)
      /\ response[p].status = 200 => clientResult[p] = Fulfilled(response[p].body)
      /\ clientResult[p].state = "fulfilled" =>
           /\ result[p].state = "fulfilled"
           /\ method[p] = clientCall[p].method
           /\ clientResult[p].value = JsonStringify(result[p].value)
           /\ AllFinite(result[p].value) => clientResult[p].value = result[p].value

\* one call fulfilled with null in place of an infinite sum, another rejected
\* for the status 500
C11_Witness ==
  \E p, q \in Procs :
    /\ Returned(p) /\ clientResult[p].state = "fulfilled"
    /\ clientResult[p].value # result[p].value
    /\ Returned(q) /\ clientResult[q].state = "rejected"
    /\ response[q].status = 500

----------------------------------------------------------------------------
(* Properties of add and subtract, checked under SpecMath.                  *)

FirstOperand(p) ==
  IF method[p] = "add" THEN input[p].props["augend"] ELSE input[p].props["minuend"]
SecondOperand(p) ==
  IF method[p] = "add" THEN input[p].props["addend"]
  ELSE input[p].props["subtrahend"]
OutputKey(p) == IF method[p] = "add" THEN "sum" ELSE "difference"
\* the exact integer result of the method on two finite operands
Exact(p) ==
  IF method[p] = "add" THEN FirstOperand(p).n + SecondOperand(p).n
  ELSE FirstOperand(p).n - SecondOperand(p).n
IsNaN(v) == v.t = "number" /\ v.s = "NaN"
IsFinite(v) == v.t = "number" /\ v.s = ""

\* C12 as stated: for all numbers a and b a finished dispatch of add is
\* fulfilled with {sum: a + b} and one of subtract with {difference: a - b}.
C12_Math ==
  \A p \in Procs :
    Done(p) =>
      result[p] = Fulfilled(Obj1(OutputKey(p),
                                 IF method[p] = "add"
                                 THEN Plus(FirstOperand(p), SecondOperand(p))
                                 ELSE Minus(FirstOperand(p), SecondOperand(p))))

\* C12 amended: for all numbers a and b other than NaN a finished dispatch of
\* add is fulfilled with {sum: a + b} and one of subtract with
\* {difference: a - b}: the exact result when a and b are finite and it is in
\* range, a non-finite number otherwise; with NaN as an operand the dispatch
\* is rejected by the validator.
C12_MathNoNaN ==
  \A p \in Procs :
    Done(p) =>
      IF IsNaN(FirstOperand(p)) \/ IsNaN(SecondOperand(p))
      THEN Kind(result[p].reason) = "ValidationFailed" /\ calls[p] = <<>>
      ELSE /\ result[p].state = "fulfilled"
           /\ result[p].value.kind = "object"
           /\ DOMAIN result[p].value.props = {OutputKey(p)}
           /\ LET v == result[p].value.props[OutputKey(p)]
              IN  /\ v.t = "number"
                  /\ IF /\ IsFinite(FirstOperand(p)) /\ IsFinite(SecondOperand(p))
                        /\ Exact(p) <= MaxValue /\ Exact(p) >= 0 - MaxValue
                     THEN v = Num(Exact(p))
                     ELSE ~IsFinite(v)
                  /\ (method[p] = "add"
                        => v = Plus(FirstOperand(p), SecondOperand(p)))
                  /\ (method[p] = "subtract"
                        => v = Minus(FirstOperand(p), SecondOperand(p)))

\* subtract(10, 3) has given {difference: 7}
C12_Witness ==
  \E p \in Procs :
    /\ Done(p) /\ method[p] = "subtract"
    /\ input[p] = Obj2("minuend", Num(10), "subtrahend", Num(3))
    /\ result[p] = Fulfilled(Obj1("difference", Num(7)))

============================================================================
